---- MODULE Spec2Model ----
(***************************************************************************)
(* A model of beizure.js: the React component BezierPhysicsSimulation, its *)
(* effect (canvas set-up, Vector2 / bezierPoint / SpringPoint, the input   *)
(* listeners, the requestAnimationFrame loop, the clean-up) and the        *)
(* asynchronous requestGyroPermission handler.                             *)
(*                                                                         *)
(* Numbers.  JavaScript numbers are binary64.  Pixel quantities are kept   *)
(* here in fixed point, in units of 1/Scale pixel, and every product with  *)
(* a non-integer factor is rounded to the nearest unit (RoundDiv), one     *)
(* rounding per multiplication of the source.  Times are in units of 0.01  *)
(* ms, so that the nominal frame of 16.67 ms is the integer 1667, and a    *)
(* deltaTime is the numerator of a fraction over NominalFrame.             *)
(***************************************************************************)
EXTENDS Integers, Sequences, FiniteSets, TLC

VARIABLES
  \* the platform
  hasDOE,          \* window.DeviceOrientationEvent exists
  hasReqPerm,      \* DeviceOrientationEvent.requestPermission is a function
  osPermission,    \* the platform's answer so far: "prompt", "granted", "denied"
  pending,         \* requestPermission() promises not yet settled
  reqSeq,          \* requestPermission() calls made so far
  now,             \* performance.now()
  \* React state of the component
  mounted, mode, showTangents, showControls, gyroSupported, gyroPermission, fps,
  dirty,           \* a render changed the effect's dependencies; effect not yet re-run
  \* the DOM
  offsetSize,      \* canvas.offsetWidth, canvas.offsetHeight
  canvasSize,      \* canvas.width, canvas.height
  listeners,       \* registered event listeners, <<type, owner>>
  raf,             \* scheduled animation-frame callbacks, [id, inst]
  rafSeq,          \* animation-frame request ids handed out so far
  \* the closure of the current run of the effect
  inst,            \* which run of the effect this is (0: none yet)
  loop,            \* its variables: cw, ch, points, mousePos, gyroData, ...
  \* observations (history variables; the program does not read them)
  obs,
  \* a SpringPoint, or a curve, exercised on its own
  probe

vars == <<hasDOE, hasReqPerm, osPermission, pending, reqSeq, now,
          mounted, mode, showTangents, showControls, gyroSupported,
          gyroPermission, fps, dirty, offsetSize, canvasSize, listeners,
          raf, rafSeq, inst, loop, obs, probe>>

componentVars == <<osPermission, pending, reqSeq, now,
                   mounted, mode, showTangents, showControls, gyroSupported,
                   gyroPermission, fps, dirty, offsetSize, canvasSize, listeners,
                   raf, rafSeq, inst, loop, obs>>

\* what no handler of the component writes
platformVars == <<hasDOE, hasReqPerm, probe>>

----------------------------------------------------------------------------
(* Bounds of the model *)

MaxRaf == 3          \* animation-frame requests in one session
MaxInst == 3         \* runs of the effect in one session
MaxReq == 2          \* clicks on "Enable Gyro" in one session
MaxLoopRaf == 6      \* animation-frame requests, for the loop on its own
MaxCalls == 4        \* calls on a SpringPoint exercised on its own
SettleSteps == 500   \* steps after which a spring is expected to have settled

(* Inputs *)
Sizes == {<<20, 10>>, <<40, 20>>}             \* offsetWidth, offsetHeight (px)
Clients == {<<30, 10>>}                       \* e.clientX, e.clientY (px)
RectOrigins == {<<0, 0>>}                     \* rect.left, rect.top (px)
Elapsed == {1667, 16670}                      \* time between frames (0.01 ms)
LoopElapsed == {1667, 16670, 100000}          \* the same, for the loop on its own
Betas == {<<>>, <<45>>}                       \* e.beta (degrees; <<>>: null)
Gammas == {<<30>>}                            \* e.gamma
Alphas == {<<>>}                              \* e.alpha
Coords == {<<0, 0>>, <<2, 1>>}                \* where a SpringPoint is built (px)
Aims == {<<0, 0>>, <<1, 2>>}                  \* where setTarget sends it (px)
AnyDeltas == {0, 1667, 3334, 4000}            \* deltaTime 0, 1, 2 and about 2.4
Displacements == {<<3, 0>>, <<-2, 3>>, <<1, -1>>, <<0, -3>>}
                                              \* position - target at the start (px)
SettleDeltas == {1667, 2500, 3334}            \* deltaTime 1, about 1.5, and 2
Corners == {<<0, 0>>, <<0, 100>>, <<100, 100>>, <<100, 0>>}
                                              \* control points of a curve (px)

----------------------------------------------------------------------------
(* Arithmetic *)

Scale == 10 ^ 4             \* fixed-point units in a pixel
NominalFrame == 1667        \* 16.67 ms
MaxDelta == 2               \* the cap on deltaTime
FpsWindow == 100000         \* 1000 ms

Min(a, b) == IF a <= b THEN a ELSE b

\* a / b rounded to the nearest integer (b > 0), halves away from zero
RoundDiv(a, b) ==
  IF a >= 0 THEN (a + b \div 2) \div b ELSE -((-a + b \div 2) \div b)

Px(n) == n * Scale

----------------------------------------------------------------------------
(* Vector2 *)

Vector2(x, y) == [x |-> x, y |-> y]

add(u, v) == Vector2(u.x + v.x, u.y + v.y)

subtract(u, v) == Vector2(u.x - v.x, u.y - v.y)

\* multiply by the scalar num/den
multiply(u, num, den) == Vector2(RoundDiv(u.x * num, den), RoundDiv(u.y * num, den))

----------------------------------------------------------------------------
(* SpringPoint *)

springConstant == 15        \* 0.15, in hundredths
damping == 85               \* 0.85, in hundredths
Hundredths == 10 ^ 2

SpringPoint(x, y, fixed) ==
  [position |-> Vector2(x, y), velocity |-> Vector2(0, 0),
   target |-> Vector2(x, y), fixed |-> fixed]

\* the mutant of update: the early return for a fixed point is missing
updateNoFixedReturn(p, deltaTime) ==
  LET displacement == subtract(p.position, p.target)
      springForce == multiply(displacement, -springConstant, Hundredths)
      dampingForce == multiply(p.velocity, -damping, Hundredths)
      acceleration == add(springForce, dampingForce)
      velocity == add(p.velocity, multiply(acceleration, deltaTime, NominalFrame))
  IN [p EXCEPT !.velocity = velocity,
               !.position = add(p.position, multiply(velocity, deltaTime, NominalFrame))]

\* the mutant of update: the damping force is left out of the acceleration
updateUndamped(p, deltaTime) ==
  IF p.fixed THEN p
  ELSE
    LET displacement == subtract(p.position, p.target)
        acceleration == multiply(displacement, -springConstant, Hundredths)
        velocity == add(p.velocity, multiply(acceleration, deltaTime, NominalFrame))
    IN [p EXCEPT !.velocity = velocity,
                 !.position = add(p.position, multiply(velocity, deltaTime, NominalFrame))]

\* update(deltaTime); deltaTime is the numerator of a fraction over NominalFrame
update(p, deltaTime) ==
  IF p.fixed THEN p
  ELSE
    LET displacement == subtract(p.position, p.target)
        springForce == multiply(displacement, -springConstant, Hundredths)
        dampingForce == multiply(p.velocity, -damping, Hundredths)
        acceleration == add(springForce, dampingForce)
        velocity == add(p.velocity, multiply(acceleration, deltaTime, NominalFrame))
    IN [p EXCEPT !.velocity = velocity,
                 !.position = add(p.position, multiply(velocity, deltaTime, NominalFrame))]

setTarget(p, x, y) == [p EXCEPT !.target = Vector2(x, y)]

----------------------------------------------------------------------------
(* The effect: control points, input handling, update loop *)

\* e.beta || 0: a missing reading (the empty tuple) counts as 0
OrZero(v) == IF v = <<>> THEN 0 ELSE v[1]

\* w * tenths / 10 for a size in pixels
Frac(n, tenths) == RoundDiv(Px(n) * tenths, 10)

points0(cw, ch) ==
  << SpringPoint(Frac(cw, 2), Frac(ch, 5), TRUE),
     SpringPoint(Frac(cw, 4), Frac(ch, 3), FALSE),
     SpringPoint(Frac(cw, 6), Frac(ch, 7), FALSE),
     SpringPoint(Frac(cw, 8), Frac(ch, 5), TRUE) >>

\* P1 and P2 get their targets from an offset
withTargets(points, cs, offsetX, offsetY) ==
  [points EXCEPT
     ![2] = setTarget(@, Frac(cs[1], 4) + offsetX, Frac(cs[2], 3) + offsetY),
     ![3] = setTarget(@, Frac(cs[1], 6) - offsetX, Frac(cs[2], 7) - offsetY)]

mouseTargets(points, mousePos, cs) ==
  LET centerX == RoundDiv(Px(cs[1]), 2)
      centerY == RoundDiv(Px(cs[2]), 2)
      offsetX == RoundDiv((mousePos.x - centerX) * 3, 10)
      offsetY == RoundDiv((mousePos.y - centerY) * 3, 10)
  IN withTargets(points, cs, offsetX, offsetY)

gyroTargets(points, gyroData, cs) ==
  LET offsetX == RoundDiv(Px(gyroData.gamma), 90) * 150
      offsetY == RoundDiv(Px(gyroData.beta - 90), 90) * 150
  IN withTargets(points, cs, offsetX, offsetY)

\* the mutant of DeltaTime: the cap is missing
DeltaTimeUncapped(elapsed) == elapsed

\* Math.min((currentTime - lastTime) / 16.67, 2), as a numerator over NominalFrame
DeltaTime(elapsed) == Min(elapsed, MaxDelta * NominalFrame)

\* does this tick publish the frame count?
publishes(L, currentTime) == currentTime - L.fpsTime >= FpsWindow

\* the branch on mode of updatePhysics
applyInput(L, cs) ==
  IF L.mode = "mouse" THEN mouseTargets(L.points, L.mousePos, cs)
  ELSE IF L.mode = "gyro" /\ L.gyroActive THEN gyroTargets(L.points, L.gyroData, cs)
  ELSE L.points

\* updatePhysics at time currentTime with the canvas at size cs; the field
\* deltaTime keeps the local of the latest call, the value passed to update
updatePhysics(L, currentTime, cs) ==
  LET deltaTime == DeltaTime(currentTime - L.lastTime)
      frameCount == L.frameCount + 1
      pub == publishes(L, currentTime)
      aimed == applyInput(L, cs)
  IN [L EXCEPT !.lastTime = currentTime,
               !.deltaTime = deltaTime,
               !.frameCount = IF pub THEN 0 ELSE frameCount,
               !.fpsTime = IF pub THEN currentTime ELSE @,
               !.points = [i \in 1..4 |-> update(aimed[i], deltaTime)]]

\* animate: updatePhysics, render (draws only), then request the next frame
animate(L, currentTime, cs, id) ==
  [updatePhysics(L, currentTime, cs) EXCEPT !.animationId = id]

\* the closure a run of the effect builds, before its first animate()
closure(m, cs, t) ==
  [mode |-> m, cw |-> cs[1], ch |-> cs[2],
   points |-> points0(cs[1], cs[2]),
   mousePos |-> Vector2(RoundDiv(Px(cs[1]), 2), RoundDiv(Px(cs[2]), 2)),
   gyroData |-> [beta |-> 0, gamma |-> 0, alpha |-> 0],
   gyroActive |-> FALSE,
   lastTime |-> t, frameCount |-> 0, fpsTime |-> t, animationId |-> 0,
   deltaTime |-> 0]

\* the listeners a run of the effect registers
registered(i) ==
  {<<"resize", i>>, <<"mousemove", i>>}
    \cup (IF hasDOE /\ ~hasReqPerm THEN {<<"deviceorientation", i>>} ELSE {})

\* the listeners the clean-up of run i removes
removed(i) == {<<"resize", i>>, <<"mousemove", i>>, <<"deviceorientation", i>>}

\* the mutant of cancelled: the clean-up cancels nothing
cancelledNone(L) == {}

\* the animation-frame requests the clean-up cancels
cancelled(L) == {r \in raf : r.id = L.animationId}

noObs ==
  [elapsed |-> 0, size |-> <<0, 0>>,
   deniedSeen |-> FALSE,
   pubs |-> 0, sincePub |-> 0, pubTicks |-> 0,
   sample |-> <<>>, everSample |-> FALSE, tickAfterSample |-> FALSE,
   ptrTargets |-> <<>>, staleTick |-> FALSE, stopped |-> {}]

\* what a tick of the current loop leaves in the observations
observeTick(L, L2, elapsed, cs) ==
  [obs EXCEPT
     !.elapsed = elapsed,
     !.size = cs,
          !.pubs = IF publishes(L, L.lastTime + elapsed) THEN Min(@ + 1, 2) ELSE @,
     !.sincePub = IF publishes(L, L.lastTime + elapsed) THEN 0 ELSE @ + 1,
     !.pubTicks = IF publishes(L, L.lastTime + elapsed) THEN obs.sincePub + 1 ELSE @,
     !.tickAfterSample = (obs.sample # <<>>),
     !.ptrTargets = IF L.mode = "mouse"
                    THEN <<L2.points[2].target, L2.points[3].target>> ELSE @]

----------------------------------------------------------------------------
(* The component: initial render, the effect, the handlers *)

\* The component has rendered once (useState's initial values) and its effect
\* is about to run for the first time.
Init ==
  /\ hasDOE \in BOOLEAN
  /\ hasReqPerm \in {h \in BOOLEAN : h => hasDOE}
  /\ osPermission = "prompt"
  /\ pending = 0
  /\ reqSeq = 0
  /\ now = 0
  /\ mounted = TRUE
  /\ mode = "mouse"
  /\ showTangents = TRUE
  /\ showControls = TRUE
  /\ gyroSupported = FALSE
  /\ gyroPermission = "unknown"
  /\ fps = 60
  /\ dirty = TRUE
  /\ offsetSize \in Sizes
  /\ canvasSize = <<300, 150>>
  /\ listeners = {}
  /\ raf = {}
  /\ rafSeq = 0
  /\ inst = 0
  /\ loop = closure("mouse", <<300, 150>>, 0)
  /\ obs = noObs
  /\ probe = <<>>

\* The effect runs: the clean-up of the previous run, if any, then the body,
\* which ends with the first animate().
RunEffect ==
  /\ mounted /\ dirty
  /\ LET i == inst + 1
         id == rafSeq + 1
         kept == IF inst = 0 THEN listeners ELSE listeners \ removed(inst)
         frames == IF inst = 0 THEN raf ELSE raf \ cancelled(loop)
         L0 == closure(mode, offsetSize, now)
         L1 == animate(L0, now, offsetSize, id)
     IN /\ inst' = i
        /\ canvasSize' = offsetSize
        /\ listeners' = kept \cup registered(i)
        /\ gyroSupported' = (gyroSupported \/ hasDOE)
        /\ gyroPermission' = IF hasDOE /\ hasReqPerm THEN "needed" ELSE gyroPermission
        /\ loop' = L1
        /\ fps' = IF publishes(L0, now) THEN L0.frameCount + 1 ELSE fps
        /\ raf' = frames \cup {[id |-> id, inst |-> i]}
        /\ rafSeq' = id
        /\ obs' = [observeTick(L0, L1, 0, offsetSize) EXCEPT
                     !.sample = <<>>, !.tickAfterSample = FALSE,
                     !.stopped = IF inst = 0 THEN @ ELSE @ \cup {inst}]
  /\ dirty' = FALSE
  /\ UNCHANGED <<platformVars, osPermission, pending, reqSeq, now, mounted, mode,
                 showTangents, showControls, offsetSize>>

\* An animation frame: the browser calls a scheduled animate() after some time.
Tick(r, elapsed) ==
  /\ r \in raf
  /\ now' = now + elapsed
  /\ rafSeq' = rafSeq + 1
  /\ raf' = (raf \ {r}) \cup {[id |-> rafSeq + 1, inst |-> r.inst]}
  /\ IF r.inst = inst
     THEN LET L2 == animate(loop, now + elapsed, canvasSize, rafSeq + 1)
          IN /\ loop' = L2
             /\ fps' = IF publishes(loop, now + elapsed) THEN loop.frameCount + 1 ELSE fps
             /\ obs' = observeTick(loop, L2, now + elapsed - loop.lastTime, canvasSize)
     ELSE /\ obs' = [obs EXCEPT !.staleTick = TRUE]
          /\ UNCHANGED <<loop, fps>>
  /\ UNCHANGED <<platformVars, osPermission, pending, reqSeq, mounted, mode,
                 showTangents, showControls, gyroSupported, gyroPermission, dirty,
                 offsetSize, canvasSize, listeners, inst>>

\* the mutant of Resize: the handler also rebuilds the rig at the new size
ResizeRebuilds(size) ==
  /\ mounted
  /\ size # offsetSize
  /\ offsetSize' = size
  /\ canvasSize' = IF \E l \in listeners : l[1] = "resize" THEN size ELSE canvasSize
  /\ loop' = IF \E l \in listeners : l[1] = "resize"
             THEN [loop EXCEPT !.points = points0(size[1], size[2])]
             ELSE loop
  /\ UNCHANGED <<platformVars, osPermission, pending, reqSeq, now, mounted, mode,
                 showTangents, showControls, gyroSupported, gyroPermission, fps,
                 dirty, listeners, raf, rafSeq, inst, obs>>

\* The window is resized: the layout changes the canvas's offset size, then the
\* registered resize listeners run.
Resize(size) ==
  /\ mounted
  /\ size # offsetSize
  /\ offsetSize' = size
  /\ canvasSize' = IF \E l \in listeners : l[1] = "resize" THEN size ELSE canvasSize
  /\ UNCHANGED <<platformVars, osPermission, pending, reqSeq, now, mounted, mode,
                 showTangents, showControls, gyroSupported, gyroPermission, fps,
                 dirty, listeners, raf, rafSeq, inst, loop, obs>>

\* mousemove on the canvas
handleMouseMove(client, rect) ==
  /\ <<"mousemove", inst>> \in listeners
  /\ loop' = [loop EXCEPT !.mousePos = Vector2(Px(client[1]) - Px(rect[1]),
                                               Px(client[2]) - Px(rect[2]))]
  /\ loop' # loop
  /\ UNCHANGED <<platformVars, osPermission, pending, reqSeq, now, mounted, mode,
                 showTangents, showControls, gyroSupported, gyroPermission, fps,
                 dirty, offsetSize, canvasSize, listeners, raf, rafSeq, inst, obs>>

\* The device reports an orientation: the window's deviceorientation listeners
\* run.  handleOrientation stores the sample; the listener of the permission
\* path does nothing.
DeviceOrientation(beta, gamma, alpha) ==
  /\ mounted
  /\ hasDOE
  /\ hasReqPerm => osPermission = "granted"
  /\ loop' = IF <<"deviceorientation", inst>> \in listeners
             THEN [loop EXCEPT !.gyroData = [beta |-> OrZero(beta),
                                             gamma |-> OrZero(gamma),
                                             alpha |-> OrZero(alpha)],
                               !.gyroActive = TRUE]
             ELSE loop
  /\ obs' = [obs EXCEPT !.sample = IF mounted /\ inst > 0
                                   THEN <<OrZero(beta), OrZero(gamma)>> ELSE @,
                        !.everSample = TRUE,
                        !.tickAfterSample = FALSE]
  /\ <<loop', obs'>> # <<loop, obs>>
  /\ UNCHANGED <<platformVars, osPermission, pending, reqSeq, now, mounted, mode,
                 showTangents, showControls, gyroSupported, gyroPermission, fps,
                 dirty, offsetSize, canvasSize, listeners, raf, rafSeq, inst>>

\* A click handler sets a state that the effect depends on.  React runs an
\* effect that is still pending before it renders the next update.
SetDeps(m, t, c) ==
  /\ mounted /\ ~dirty
  /\ inst < MaxInst
  /\ <<m, t, c>> # <<mode, showTangents, showControls>>
  /\ mode' = m
  /\ showTangents' = t
  /\ showControls' = c
  /\ dirty' = TRUE
  /\ UNCHANGED <<platformVars, osPermission, pending, reqSeq, now, mounted,
                 gyroSupported, gyroPermission, fps, offsetSize, canvasSize,
                 listeners, raf, rafSeq, inst, loop, obs>>

\* setMode(m): React ignores a state that does not change
setMode(m) ==
  IF m = mode THEN mounted /\ ~dirty /\ UNCHANGED vars
  ELSE SetDeps(m, showTangents, showControls)

ClickMouseMode == setMode("mouse")

\* the "Gyro Mode" button is rendered only while gyroPermission is 'granted'
ClickGyroMode ==
  /\ gyroSupported /\ gyroPermission = "granted"
  /\ setMode("gyro")

ToggleTangents == SetDeps(mode, ~showTangents, showControls)

ToggleControls == SetDeps(mode, showTangents, ~showControls)

\* "Enable Gyro" is rendered only while gyroPermission is 'needed':
\* requestGyroPermission runs up to its await.  The platform's prompt is
\* modal: no second click while a request is pending.
ClickEnableGyro ==
  /\ mounted /\ ~dirty
  /\ pending = 0
  /\ gyroSupported /\ gyroPermission = "needed"
  /\ hasReqPerm
  /\ reqSeq < MaxReq
  /\ reqSeq' = reqSeq + 1
  /\ pending' = pending + 1
  /\ UNCHANGED <<platformVars, osPermission, now, mounted, mode, showTangents,
                 showControls, gyroSupported, gyroPermission, fps, dirty,
                 offsetSize, canvasSize, listeners, raf, rafSeq, inst, loop, obs>>

\* The answers the platform can give: it asks the user once and then repeats
\* the answer; a call can also be rejected.
Answers ==
  IF osPermission = "prompt" THEN {"granted", "denied", "throw"}
  ELSE {osPermission, "throw"}

\* requestGyroPermission resumes after its await.  The state setters do
\* nothing once the component has unmounted; addEventListener still does.
PermissionSettled(answer) ==
  /\ pending > 0
  /\ ~dirty
  /\ answer \in Answers
  /\ (mounted /\ answer = "granted" /\ mode # "gyro") => inst < MaxInst
  /\ pending' = pending - 1
  /\ osPermission' = IF answer = "throw" THEN osPermission ELSE answer
  /\ listeners' = IF answer = "granted"
                  THEN listeners \cup {<<"deviceorientation-anonymous", reqSeq - pending + 1>>}
                  ELSE listeners
  /\ gyroPermission' = IF ~mounted THEN gyroPermission
                       ELSE IF answer = "granted" THEN "granted" ELSE "denied"
  /\ mode' = IF mounted /\ answer = "granted" THEN "gyro" ELSE mode
  /\ dirty' = (mounted /\ answer = "granted" /\ mode # "gyro")
  /\ obs' = [obs EXCEPT !.deniedSeen = @ \/ (mounted /\ answer # "granted")]
  /\ UNCHANGED <<platformVars, reqSeq, now, mounted, showTangents, showControls,
                 gyroSupported, fps, offsetSize, canvasSize, raf, rafSeq, inst, loop>>

\* The component unmounts: the clean-up of the last run of the effect.
Unmount ==
  /\ mounted
  /\ inst > 0
  /\ mounted' = FALSE
  /\ dirty' = FALSE
  /\ listeners' = listeners \ removed(inst)
  /\ raf' = raf \ cancelled(loop)
  /\ obs' = [obs EXCEPT !.stopped = @ \cup {inst}]
  /\ UNCHANGED <<platformVars, osPermission, pending, reqSeq, now, mode,
                 showTangents, showControls, gyroSupported, gyroPermission, fps,
                 offsetSize, canvasSize, rafSeq, inst, loop>>

Next ==
  \/ RunEffect
  \/ \E r \in raf, e \in Elapsed : rafSeq < MaxRaf /\ Tick(r, e)
  \/ \E size \in Sizes : Resize(size)
  \/ \E c \in Clients, o \in RectOrigins : handleMouseMove(c, o)
  \/ \E b \in Betas, g \in Gammas, a \in Alphas : DeviceOrientation(b, g, a)
  \/ ClickMouseMode
  \/ ClickGyroMode
  \/ ToggleTangents
  \/ ToggleControls
  \/ ClickEnableGyro
  \/ \E answer \in {"granted", "denied", "throw"} : PermissionSettled(answer)
  \/ Unmount

Spec == Init /\ [][Next]_vars

\* The loop on its own: frames, pointer input and a toggle that re-runs the
\* effect, over more frames and longer pauses.
NextLoop ==
  \/ RunEffect
  \/ \E r \in raf, e \in LoopElapsed : rafSeq < MaxLoopRaf /\ Tick(r, e)
  \/ \E c \in Clients, o \in RectOrigins : handleMouseMove(c, o)
  \/ ToggleTangents

SpecLoop == Init /\ [][NextLoop]_vars

----------------------------------------------------------------------------
(* The component at rest, for the specifications that exercise one part *)

Idle ==
  /\ hasDOE = FALSE
  /\ hasReqPerm = FALSE
  /\ osPermission = "prompt"
  /\ pending = 0
  /\ reqSeq = 0
  /\ now = 0
  /\ mounted = FALSE
  /\ mode = "mouse"
  /\ showTangents = TRUE
  /\ showControls = TRUE
  /\ gyroSupported = FALSE
  /\ gyroPermission = "unknown"
  /\ fps = 60
  /\ dirty = FALSE
  /\ offsetSize = <<300, 150>>
  /\ canvasSize = <<300, 150>>
  /\ listeners = {}
  /\ raf = {}
  /\ rafSeq = 0
  /\ inst = 0
  /\ loop = closure("mouse", <<300, 150>>, 0)
  /\ obs = noObs

----------------------------------------------------------------------------
(* A SpringPoint on its own: any calls of update and setTarget *)

InitPoint ==
  /\ Idle
  /\ \E c \in Coords, fixed \in BOOLEAN :
       probe = [p |-> SpringPoint(Px(c[1]), Px(c[2]), fixed),
                built |-> SpringPoint(Px(c[1]), Px(c[2]), fixed),
                calls |-> 0, pulled |-> FALSE]

PointUpdate(deltaTime) ==
  /\ probe.calls < MaxCalls
  /\ probe' = [probe EXCEPT !.p = update(@, deltaTime),
                            !.calls = @ + 1,
                            !.pulled = @ \/ (probe.p.target # probe.p.position
                                             /\ deltaTime > 0)]
  /\ UNCHANGED <<hasDOE, hasReqPerm, componentVars>>

PointSetTarget(aim) ==
  /\ probe.calls < MaxCalls
  /\ probe' = [probe EXCEPT !.p = setTarget(@, Px(aim[1]), Px(aim[2])),
                            !.calls = @ + 1]
  /\ UNCHANGED <<hasDOE, hasReqPerm, componentVars>>

NextPoint ==
  \/ \E deltaTime \in AnyDeltas : PointUpdate(deltaTime)
  \/ \E aim \in Aims : PointSetTarget(aim)

SpecPoint == InitPoint /\ [][NextPoint]_vars

----------------------------------------------------------------------------
(* A spring stepped with one deltaTime toward one target *)

\* the square of the distance from position to target
dist2(p) ==
  LET d == subtract(p.position, p.target) IN d.x * d.x + d.y * d.y

Anchor == Vector2(Px(10), Px(10))

InitSettle ==
  /\ Idle
  /\ \E d \in Displacements, deltaTime \in SettleDeltas :
       LET p == setTarget(SpringPoint(Anchor.x + Px(d[1]), Anchor.y + Px(d[2]), FALSE),
                          Anchor.x, Anchor.y)
       IN probe = [p |-> p, deltaTime |-> deltaTime, n |-> 0,
                   first |-> dist2(p), before |-> dist2(p), dist |-> dist2(p)]

SettleStep ==
  /\ probe' = [probe EXCEPT !.p = update(@, probe.deltaTime),
                            !.n = Min(@ + 1, SettleSteps),
                            !.before = dist2(probe.p),
                            !.dist = dist2(update(probe.p, probe.deltaTime))]
  /\ UNCHANGED <<hasDOE, hasReqPerm, componentVars>>

NextSettle == SettleStep

SpecSettle == InitSettle /\ [][NextSettle]_vars

\* the spring is stepped again and again
SpecSettleFair == SpecSettle /\ WF_vars(SettleStep)

----------------------------------------------------------------------------
(* bezierPoint on its own *)

steps == 100

Cube(n) == n * n * n

\* the mutant of bezierPoint: the inner weights lack their factor 3
bezierPointNoThree(i, p0, p1, p2, p3) ==
  LET t == i
      t1 == steps - i
      t1_2 == t1 * t1
      t1_3 == t1_2 * t1
      t_2 == t * t
      t_3 == t_2 * t
  IN Vector2(t1_3 * p0.x + t1_2 * t * p1.x + t1 * t_2 * p2.x + t_3 * p3.x,
             t1_3 * p0.y + t1_2 * t * p1.y + t1 * t_2 * p2.y + t_3 * p3.y)

\* bezierPoint(t, p0, p1, p2, p3) at t = i / steps, as drawCurve samples it.
\* t stands for steps * t and t1 for steps * (1 - t), so that the result is
\* Cube(steps) times the point, in exact arithmetic.
bezierPoint(i, p0, p1, p2, p3) ==
  LET t == i
      t1 == steps - i
      t1_2 == t1 * t1
      t1_3 == t1_2 * t1
      t_2 == t * t
      t_3 == t_2 * t
  IN Vector2(t1_3 * p0.x + 3 * t1_2 * t * p1.x + 3 * t1 * t_2 * p2.x + t_3 * p3.x,
             t1_3 * p0.y + 3 * t1_2 * t * p1.y + 3 * t1 * t_2 * p2.y + t_3 * p3.y)

InitBezier ==
  /\ Idle
  /\ \E i \in 0..steps, c0 \in Corners, c1 \in Corners, c2 \in Corners, c3 \in Corners :
       probe = [i |-> i,
                ps |-> <<Vector2(c0[1], c0[2]), Vector2(c1[1], c1[2]),
                         Vector2(c2[1], c2[2]), Vector2(c3[1], c3[2])>>,
                point |-> <<>>]

Evaluate ==
  /\ probe.point = <<>>
  /\ probe' = [probe EXCEPT
                 !.point = <<bezierPoint(probe.i, probe.ps[1], probe.ps[2],
                                         probe.ps[3], probe.ps[4])>>]
  /\ UNCHANGED <<hasDOE, hasReqPerm, componentVars>>

NextBezier == Evaluate

SpecBezier == InitBezier /\ [][NextBezier]_vars

----------------------------------------------------------------------------
(* Properties *)

TwoFrames == MaxDelta * NominalFrame

\* 1e-3 pixel, and its square
Tolerance == Scale \div 1000
Tolerance2 == Tolerance * Tolerance

\* C1: a SpringPoint built with fixed = true keeps the position and the
\* velocity it was built with, whatever update and setTarget calls follow.
C1_FixedPointInvariant ==
  probe.p.fixed =>
    /\ probe.p.position = probe.built.position
    /\ probe.p.velocity = probe.built.velocity

\* a fixed point whose target was moved away and that was then updated
C1_Witness ==
  /\ probe.p.fixed
  /\ probe.pulled
  /\ probe.p.target # probe.built.target
  /\ probe.calls >= 3

\* C2: in orientation mode with no orientation sample delivered yet, the
\* targets of P1 and P2 are the ones the pointer set last.
C2_ModeSwitchKeepsTargets ==
  (inst > 0 /\ loop.mode = "gyro" /\ ~obs.everSample /\ obs.ptrTargets # <<>>)
    => <<loop.points[2].target, loop.points[3].target>> = obs.ptrTargets

C4_StopDeregistersAll == ~mounted => listeners = {}

\* C5: once a permission request has been denied or has thrown, gyroPermission
\* stays 'denied' and mode is not 'gyro'.
C5_DeniedIsTerminal ==
  (mounted /\ obs.deniedSeen) => (gyroPermission = "denied" /\ mode # "gyro")

\* the curve of the scenario, evaluated at t = 0.5
MidOfScenario ==
  /\ probe.ps = <<Vector2(0, 0), Vector2(0, 100), Vector2(100, 100), Vector2(100, 0)>>
  /\ 2 * probe.i = steps
  /\ probe.point # <<>>

\* C6, as stated: the curve (0,0), (0,100), (100,100), (100,0) is at (50,50)
\* for t = 0.5.
C6_MidpointAsStated ==
  MidOfScenario => probe.point[1] = Vector2(50 * Cube(steps), 50 * Cube(steps))

\* C6, amended: the curve (0,0), (0,100), (100,100), (100,0) is at (50,75)
\* for t = 0.5.
C6_Midpoint ==
  MidOfScenario => probe.point[1] = Vector2(50 * Cube(steps), 75 * Cube(steps))

C6_Witness == MidOfScenario

\* C7: stepped with deltaTime 1 from rest, a spring is never farther from its
\* target than at the start, never farther than one step before, and within
\* 1e-3 of it from step SettleSteps on.
C7_Converges ==
  probe.deltaTime = NominalFrame =>
    /\ probe.dist = dist2(probe.p)
    /\ probe.dist <= probe.first
    /\ probe.dist <= probe.before
    /\ (probe.n >= SettleSteps => probe.dist < Tolerance2)

\* a spring that started away from its target and has made SettleSteps steps
C7_Witness ==
  /\ probe.deltaTime = NominalFrame
  /\ probe.first > Tolerance2
  /\ probe.n >= SettleSteps
  /\ probe.dist < Tolerance2

\* C8: from the second publication on, the published fps is the number of
\* ticks since the publication before it.
C8_FpsCountsTicks == obs.pubs >= 2 => fps = obs.pubTicks

\* C9: where permission is required, a tick in orientation mode that follows a
\* delivered sample has stored the sample and aimed P1 and P2 by it.
C9_OrientationReachesRig ==
  (hasReqPerm /\ inst > 0 /\ loop.mode = "gyro" /\ obs.tickAfterSample) =>
    LET data == [beta |-> obs.sample[1], gamma |-> obs.sample[2], alpha |-> 0]
        aimed == gyroTargets(loop.points, data, obs.size)
    IN /\ loop.gyroData.beta = data.beta
       /\ loop.gyroData.gamma = data.gamma
       /\ loop.points[2].target = aimed[2].target
       /\ loop.points[3].target = aimed[3].target

\* the spring is within 1e-3 of its target
Settled == probe.dist < Tolerance2

\* C10: stepped again and again with one deltaTime of the loop's range, a
\* spring ends up within 1e-3 of its target and stays there.
C10_Settles == <>[]Settled

\* C11: a resize changes only the size of the canvas: the four points (position,
\* velocity, target), the stored pointer and orientation samples, the frame
\* counters, the run of the effect, its listeners and its frame request stay as
\* they were; the next tick that applies input aims P1 and P2 by the new size.
\* (The input a tick of the component applies is the pointer: no run of the
\* effect is in orientation mode with a stored orientation sample.)
C11_ResizeFrame ==
  [][ /\ (offsetSize' # offsetSize) =>
           /\ loop' = loop
           /\ inst' = inst
           /\ listeners' = listeners
           /\ raf' = raf /\ rafSeq' = rafSeq
           /\ fps' = fps
      /\ (rafSeq' # rafSeq /\ inst' = inst /\ inst > 0 /\ loop.mode = "mouse") =>
           LET aimed == mouseTargets(loop.points, loop.mousePos, canvasSize)
           IN /\ loop'.points[2].target = aimed[2].target
              /\ loop'.points[3].target = aimed[3].target
    ]_vars

\* a tick has applied the pointer at a size other than the one the rig was
\* built at, and the rig is still the one that was built then
C11_Witness ==
  /\ inst > 0 /\ mounted /\ loop.mode = "mouse"
  /\ loop.frameCount >= 2
  /\ obs.size = canvasSize
  /\ canvasSize # <<loop.cw, loop.ch>>
  /\ loop.points[1] = points0(loop.cw, loop.ch)[1]
  /\ loop.points[2].target =
       mouseTargets(loop.points, loop.mousePos, canvasSize)[2].target
  /\ loop.points[2].target # points0(loop.cw, loop.ch)[2].target

\* C12: a run of the effect whose clean-up has returned never ticks again, and
\* at most one frame request is pending at any moment, that of the current run.
C12_NoTickAfterStop ==
  /\ ~obs.staleTick
  /\ Cardinality(raf) <= 1
  /\ \A r \in raf : r.inst = inst /\ r.inst \notin obs.stopped /\ mounted

\* a run has been stopped and the run that replaced it has ticked since
C12_Witness ==
  /\ obs.stopped # {}
  /\ mounted /\ inst \notin obs.stopped
  /\ loop.frameCount >= 2
  /\ Cardinality(raf) = 1

====
